---- MODULE Spec2Model ----
(***************************************************************************)
(* RAGAgentMixin (py/core/agent/rag.py): tool registration, the five tool  *)
(* results-functions feeding the per-turn SearchResultsCollector, the      *)
(* content tool's filter merge, and the budget cut of the text handed to   *)
(* the model.                                                              *)
(*                                                                         *)
(* The module holds four specifications over one set of variables; each    *)
(* one drives one part of the mixin and leaves the other parts' variables  *)
(* at their initial values:                                                *)
(*   SpecFormat    format_search_results_for_llm                           *)
(*   SpecContent   the filter merge of _content_function                   *)
(*   SpecRegister  _register_tools                                         *)
(*   SpecTools     concurrent results-function calls on one agent          *)
(*   SpecOneCall   one results-function call, any subset of methods bound  *)
(***************************************************************************)
EXTENDS Integers, Sequences, FiniteSets, TLC

VARIABLES
    \* ---- format_search_results_for_llm ----
    context,                  \* the rendered text (a sequence of characters)
    raw_tokens,               \* num_tokens(context)
    max_tool_context_length,  \* self.max_tool_context_length
    llm_text,                 \* what format_search_results_for_llm returned
    fmt_pc,                   \* "ready" | "returned"
    \* ---- _content_function's filter merge ----
    arg_filters,              \* the filter object F the caller means
    arg_shape,                \* "object": F itself is passed; "string": its JSON text
    baseline_filters,         \* self.search_settings.filters
    content_call,             \* outcome: what reached content_method, or the error
    \* ---- _register_tools ----
    config_tools,             \* self.config.tools (a list, duplicates allowed)
    gemini,                   \* "gemini" in self.rag_generation_config.model
    remaining,                \* names of set(self.config.tools) not yet visited
    tools,                    \* self._tools
    reg_pc,                   \* "init" | "loop" | "done" | "raised"
    \* ---- results-function calls ----
    bound,                    \* which collaborator methods the agent was given
    pc,                       \* per call: position of the coroutine
    tool,                     \* per call: the tool invoked
    io,                       \* per call: what the external collaborator did
    err,                      \* per call: the exception that left the call
    result,                   \* per call: the aggregate returned to the caller
    search_results_collector, \* self.search_results_collector
    completion_order          \* calls in the order they returned to the caller

fmt_vars == <<context, raw_tokens, max_tool_context_length, llm_text, fmt_pc>>
content_vars == <<arg_filters, arg_shape, baseline_filters, content_call>>
reg_vars == <<config_tools, gemini, remaining, tools, reg_pc>>
tool_vars == <<bound, pc, tool, io, err, result, search_results_collector,
               completion_order>>
vars == <<fmt_vars, content_vars, reg_vars, tool_vars>>

Min(a, b) == IF a <= b THEN a ELSE b
Max(a, b) == IF a >= b THEN a ELSE b

None == [kind |-> "none"]

(***************************************************************************)
(* format_search_results_for_llm                                           *)
(***************************************************************************)
MaxContextLen == 4
MaxTokens == 5
MaxBudget == 5
Chars == {"a", "b"}

Strings(n) == UNION {[1..k -> Chars] : k \in 0..n}

\* Python's s[:k]: the first k items for k >= 0 (all of s when k >= len(s)),
\* all but the last -k items for k < 0.
SlicePrefix(s, k) ==
    IF k >= 0 THEN SubSeq(s, 1, Min(k, Len(s)))
    ELSE SubSeq(s, 1, Max(0, Len(s) + k))

\* int(frac_to_return * len(context)) with frac_to_return = budget / tokens,
\* for budget >= 0 and tokens >= 1 (int() of a non-negative number is its
\* floor). The quotient and the product are taken exactly; in doubles the
\* product can fall just under an integer it equals exactly (1/49 * 49), and
\* is exact at budget = tokens.
ScaledLength(budget, tokens, len) == (budget * len) \div tokens

\* A plausible slip: the fraction taken with integer division.
format_search_results_for_llm_intdiv(ctx, ntok, budget) ==
    LET context_tokens == ntok + 1
        frac_to_return == budget \div context_tokens
    IN IF budget > context_tokens THEN ctx
       ELSE SlicePrefix(ctx, frac_to_return * Len(ctx))

\* A plausible slip: the comparison reversed, so the cut is never applied.
format_search_results_for_llm_reversed(ctx, ntok, budget) ==
    LET context_tokens == ntok + 1
    IN IF budget < context_tokens THEN ctx
       ELSE SlicePrefix(ctx, ScaledLength(budget, context_tokens, Len(ctx)))

\* rag.py 377-383. frac_to_return > 1 is budget > context_tokens.
format_search_results_for_llm(ctx, ntok, budget) ==
    LET context_tokens == ntok + 1
    IN IF budget > context_tokens THEN ctx
       ELSE SlicePrefix(ctx, ScaledLength(budget, context_tokens, Len(ctx)))

\* The tokenizer gives no token to the empty text and at least one to any
\* other; a character is at most four bytes, a token at least one byte.
TokenCounts(ctx) ==
    IF Len(ctx) = 0 THEN {0} ELSE 1..Min(MaxTokens, 4 * Len(ctx))

FormatInit ==
    /\ context \in Strings(MaxContextLen)
    /\ raw_tokens \in TokenCounts(context)
    /\ max_tool_context_length \in 0..MaxBudget
    /\ llm_text = <<>>
    /\ fmt_pc = "ready"

FormatIdle ==
    /\ context = <<>>
    /\ raw_tokens = 0
    /\ max_tool_context_length = 0
    /\ llm_text = <<>>
    /\ fmt_pc = "ready"

\* One call of format_search_results_for_llm on the rendered text.
FormatCall ==
    /\ fmt_pc = "ready"
    /\ llm_text' = format_search_results_for_llm(context, raw_tokens,
                                                  max_tool_context_length)
    /\ fmt_pc' = "returned"
    /\ UNCHANGED <<context, raw_tokens, max_tool_context_length>>
    /\ UNCHANGED <<content_vars, reg_vars, tool_vars>>

(***************************************************************************)
(* _content_function: the filter handed to content_method                  *)
(***************************************************************************)
FilterKeys == {"collection_ids", "document_id", "id"}
FilterVals == {"X", "Y"}
KeyOrder == <<"collection_ids", "document_id", "id", "owner_id">>

\* A filter value is None, a dict, a str, or the dict {"$and": [a, b]}.
Dict(items) == [kind |-> "dict", items |-> items]
Str(text) == [kind |-> "str", text |-> text]
And(a, b) == [kind |-> "and", args |-> <<a, b>>]

DictsOver(keys, vals) == {Dict(f) : f \in UNION {[d -> vals] : d \in SUBSET keys}}
EmptyDict == Dict(<<>>)
CallerDicts == DictsOver(FilterKeys, FilterVals)
Baselines == DictsOver({"collection_ids", "owner_id"}, {"Y"})

\* json.dumps of a dict, as the sequence of its lexical tokens.
RECURSIVE JsonItems(_, _, _)
JsonItems(f, i, first) ==
    IF i > Len(KeyOrder) THEN <<>>
    ELSE IF KeyOrder[i] \in DOMAIN f
         THEN (IF first THEN <<>> ELSE <<",">>)
              \o <<KeyOrder[i], ":", f[KeyOrder[i]]>>
              \o JsonItems(f, i + 1, FALSE)
         ELSE JsonItems(f, i + 1, first)

JsonDumps(d) == Str(<<"{">> \o JsonItems(d.items, 1, TRUE) \o <<"}">>)

\* Python truthiness of a filters argument.
Truthy(x) ==
    CASE x.kind = "none" -> FALSE
      [] x.kind = "dict" -> DOMAIN x.items # {}
      [] x.kind = "str" -> Len(x.text) > 0
      [] OTHER -> TRUE

\* `key in x`: a key of a dict, a substring of a str.
Contains(x, key) ==
    CASE x.kind = "dict" -> key \in DOMAIN x.items
      [] x.kind = "str" -> \E i \in 1..Len(x.text) : x.text[i] = key
      [] OTHER -> FALSE

\* A plausible slip: the value is read, not popped, so document_id stays.
RenameDocumentId_keep(d) ==
    Dict([k \in DOMAIN d.items \cup {"id"} |->
            IF k = "id" THEN d.items["document_id"] ELSE d.items[k]])

\* filters["id"] = filters.pop("document_id") on a dict.
RenameDocumentId(d) ==
    Dict([k \in (DOMAIN d.items \ {"document_id"}) \cup {"id"} |->
            IF k = "id" THEN d.items["document_id"] ELSE d.items[k]])

Passed(f) == [status |-> "called", filters |-> f, error |-> "none"]
Raised(e) == [status |-> "raised", filters |-> None, error |-> e]
NotCalled == [status |-> "pending", filters |-> None, error |-> "none"]

\* A plausible slip: no test of the caller's filters, so absent or empty ones
\* are wrapped with the baseline like any other.
MergeFilters_nocheck(filters, baseline) ==
    IF Contains(filters, "document_id") /\ filters.kind # "dict"
    THEN Raised("AttributeError")
    ELSE LET renamed == IF Contains(filters, "document_id")
                        THEN RenameDocumentId(filters) ELSE filters
         IN IF baseline # EmptyDict
            THEN Passed(And(renamed, baseline))
            ELSE Passed(renamed)

\* rag.py 239-245: the filters handed to content_method, or the exception
\* raised on the way (a str has no pop).
MergeFilters(filters, baseline) ==
    IF Truthy(filters)
    THEN IF Contains(filters, "document_id") /\ filters.kind # "dict"
         THEN Raised("AttributeError")
         ELSE LET renamed == IF Contains(filters, "document_id")
                             THEN RenameDocumentId(filters) ELSE filters
              IN IF baseline # EmptyDict
                 THEN Passed(And(renamed, baseline))
                 ELSE Passed(renamed)
    ELSE Passed(baseline)

\* What arrives in `filters` for a caller meaning F under each schema shape
\* (rag.py 166-216: "type": "string" for gemini models, "type": "object" else).
FiltersArgument(F, shape) ==
    IF shape = "string" THEN JsonDumps(F) ELSE F

ContentInit ==
    /\ arg_filters \in CallerDicts \cup {None}
    /\ arg_shape \in IF arg_filters = None THEN {"object"} ELSE {"object", "string"}
    /\ baseline_filters \in Baselines
    /\ content_call = NotCalled

ContentIdle ==
    /\ arg_filters = None
    /\ arg_shape = "object"
    /\ baseline_filters = EmptyDict
    /\ content_call = NotCalled

\* _content_function up to its call of content_method.
ContentCall ==
    /\ content_call = NotCalled
    /\ content_call' = MergeFilters(FiltersArgument(arg_filters, arg_shape),
                                     baseline_filters)
    /\ UNCHANGED <<arg_filters, arg_shape, baseline_filters>>
    /\ UNCHANGED <<fmt_vars, reg_vars, tool_vars>>

(***************************************************************************)
(* _register_tools                                                         *)
(***************************************************************************)
MaxConfigTools == 3

SupportedNames == {"content", "firecrawl_scrape", "search_file_knowledge",
                   "search_file_descriptions", "web_search"}
OtherNames == {"search_files", "calculator"}
ConfigNames == SupportedNames \cup OtherNames

\* Tool(name=..., results_function=..., parameters=...): the published name,
\* the bound results-function and the declared type of `filters`, if any.
Tool(name, fn, filters_type) ==
    [name |-> name, results_function |-> fn, filters_type |-> filters_type]

\* The five factories (rag.py 100-123, 161-217, 278-297, 324-348, 385-412).
search_file_knowledge ==
    Tool("search_file_knowledge", "_file_knowledge_search_function", "n/a")
content(is_gemini) ==
    Tool("content", "_content_function", IF is_gemini THEN "string" ELSE "object")
web_search == Tool("web_search", "_web_search_function", "n/a")
search_files == Tool("search_files", "_search_files_function", "n/a")
firecrawl_scrape == Tool("firecrawl_scrape", "_firecrawl_scrape_function", "n/a")

Registered(ts) == [raised |-> FALSE, tools |-> ts]
Unsupported(ts) == [raised |-> TRUE, tools |-> ts]

\* A plausible slip: the final else skips the name instead of raising.
RegisterOne_skip(tool_name, is_gemini, ts) ==
    CASE tool_name = "content" -> Registered(Append(ts, content(is_gemini)))
      [] tool_name = "firecrawl_scrape" -> Registered(Append(ts, firecrawl_scrape))
      [] tool_name = "search_file_knowledge" ->
            Registered(Append(ts, search_file_knowledge))
      [] tool_name = "search_file_descriptions" ->
            Registered(Append(ts, search_files))
      [] tool_name = "web_search" -> Registered(Append(ts, web_search))
      [] OTHER -> Registered(ts)

\* The body of the loop of _register_tools (rag.py 86-97) for one name.
RegisterOne(tool_name, is_gemini, ts) ==
    CASE tool_name = "content" -> Registered(Append(ts, content(is_gemini)))
      [] tool_name = "firecrawl_scrape" -> Registered(Append(ts, firecrawl_scrape))
      [] tool_name = "search_file_knowledge" ->
            Registered(Append(ts, search_file_knowledge))
      [] tool_name = "search_file_descriptions" ->
            Registered(Append(ts, search_files))
      [] tool_name = "web_search" -> Registered(Append(ts, web_search))
      [] OTHER -> Unsupported(ts)

Range(s) == {s[i] : i \in 1..Len(s)}

RegisterInit ==
    /\ config_tools \in UNION {[1..k -> ConfigNames] : k \in 0..MaxConfigTools}
    /\ gemini \in BOOLEAN
    /\ remaining = {}
    /\ tools = <<>>
    /\ reg_pc = "init"

RegisterIdle ==
    /\ config_tools = <<>>
    /\ gemini = FALSE
    /\ remaining = {}
    /\ tools = <<>>
    /\ reg_pc = "init"

\* rag.py 82-85: nothing to do for an empty list, else iterate the set.
RegisterBegin ==
    /\ reg_pc = "init"
    /\ IF config_tools = <<>>
       THEN reg_pc' = "done" /\ remaining' = remaining
       ELSE reg_pc' = "loop" /\ remaining' = Range(config_tools)
    /\ UNCHANGED <<config_tools, gemini, tools>>
    /\ UNCHANGED <<fmt_vars, content_vars, tool_vars>>

\* One iteration of `for tool_name in set(self.config.tools)`: a set is
\* visited in no particular order. The loop ends with the last name or with
\* the exception.
RegisterNext ==
    /\ reg_pc = "loop"
    /\ \E tool_name \in remaining :
         LET r == RegisterOne(tool_name, gemini, tools)
         IN /\ tools' = r.tools
            /\ remaining' = remaining \ {tool_name}
            /\ reg_pc' = IF r.raised THEN "raised"
                         ELSE IF remaining' = {} THEN "done" ELSE "loop"
    /\ UNCHANGED <<config_tools, gemini>>
    /\ UNCHANGED <<fmt_vars, content_vars, tool_vars>>

(***************************************************************************)
(* SearchResultsCollector and AggregateSearchResult                        *)
(***************************************************************************)
NumCalls == 2
MaxResults == 2
ScrapeCap == 100000

Calls == 1..NumCalls
Kinds == {"chunk", "graph", "web", "document", "context_document"}
GraphCounts == {0, 1}
MarkdownLengths == {0, ScrapeCap, ScrapeCap + 1, 150000}

\* Number of results of each kind in one aggregate.
Counts(chunk, graph, web, document, context_document) ==
    [k \in Kinds |->
        CASE k = "chunk" -> chunk
          [] k = "graph" -> graph
          [] k = "web" -> web
          [] k = "document" -> document
          [] k = "context_document" -> context_document]

\* A text, as the number of characters kept of the scraped markdown and
\* whether "...FURTHER CONTENT TRUNCATED..." follows them.
Text(kept, suffix) == [kept |-> kept, suffix |-> suffix]
NoText == Text(0, FALSE)

\* The aggregate object built for call c: the size of each of its result
\* sequences and, for a scrape, the snippet of its one web result.
AggregateSearchResult(c, n, snippet) == [call |-> c, n |-> n, snippet |-> snippet]
NoAggregate == [call |-> 0, n |-> Counts(0, 0, 0, 0, 0), snippet |-> NoText]

\* SearchResultsCollector(): no entries, the next id of every kind is 1.
SearchResultsCollector ==
    [entries |-> <<>>, next |-> [k \in Kinds |-> 1]]

\* add_aggregate_result(agg): append agg at the next call-sequence index and
\* give every result in it the next unused id of its kind.
add_aggregate_result(coll, agg) ==
    [entries |-> Append(coll.entries,
                        [index |-> Len(coll.entries) + 1,
                         agg |-> agg,
                         ids |-> [k \in Kinds |->
                                    coll.next[k]..(coll.next[k] + agg.n[k] - 1)]]),
     next |-> [k \in Kinds |-> coll.next[k] + agg.n[k]]]

\* bool(collector): the Collector is described with add, lookup and
\* all_results only, no length or truth protocol, so an instance is truthy
\* whatever it holds.
CollectorTruthy(coll) == TRUE

(***************************************************************************)
(* The results-functions                                                   *)
(***************************************************************************)
Methods == {"knowledge_search_method", "content_method", "file_search_method"}

\* What the external collaborator of a call did: it returned `response`, it
\* raised, or the call was cancelled while waiting for it.
Response(typed, chunk, graph, items, length) ==
    [typed |-> typed, chunk |-> chunk, graph |-> graph, items |-> items,
     length |-> length]
NoResponse == Response(FALSE, 0, 0, 0, 0)
Return(response) == [kind |-> "return", response |-> response]
Raise == [kind |-> "raise", response |-> NoResponse]
Cancelled == [kind |-> "cancel", response |-> NoResponse]

Responses(t) ==
    CASE t = "search_file_knowledge" ->
            {Response(ty, ch, gr, 0, 0) :
                ty \in BOOLEAN, ch \in 0..MaxResults, gr \in GraphCounts}
      [] t = "firecrawl_scrape" -> {Response(FALSE, 0, 0, 0, l) : l \in MarkdownLengths}
      [] OTHER -> {Response(FALSE, 0, 0, i, 0) : i \in 0..MaxResults}

Outcomes(t) == {Raise} \cup {Return(r) : r \in Responses(t)}

\* How a call leaves the results-function.
Returns(agg, coll) ==
    [pc |-> "returned", err |-> "none", result |-> agg, collector |-> coll]
Raises(e, coll) ==
    [pc |-> "raised", err |-> e, result |-> NoAggregate, collector |-> coll]
IsCancelled(coll) ==
    [pc |-> "cancelled", err |-> "CancelledError", result |-> NoAggregate,
     collector |-> coll]

\* No handler surrounds the collaborator call: its exception, or the
\* CancelledError thrown into the await, leaves the function as it is.
Propagates(outcome, coll) ==
    IF outcome.kind = "cancel" THEN IsCancelled(coll)
    ELSE Raises("CollaboratorError", coll)

\* A plausible slip: the typed branch returns the response without storing it.
_file_knowledge_search_function_early(c, outcome, coll) ==
    IF outcome.kind = "return"
    THEN LET r == outcome.response
             agg == AggregateSearchResult(c, Counts(r.chunk, r.graph, 0, 0, 0), NoText)
         IN IF r.typed THEN Returns(agg, coll)
            ELSE Returns(agg, add_aggregate_result(coll, agg))
    ELSE Propagates(outcome, coll)

\* _file_knowledge_search_function from the await on (rag.py 140-158): a
\* typed response is the aggregate; a mapping gives its two lists, a missing
\* one being empty.
_file_knowledge_search_function(c, outcome, coll) ==
    IF outcome.kind = "return"
    THEN LET r == outcome.response
             agg == AggregateSearchResult(c, Counts(r.chunk, r.graph, 0, 0, 0), NoText)
         IN Returns(agg, add_aggregate_result(coll, agg))
    ELSE Propagates(outcome, coll)

\* A plausible slip: the aggregate is registered in a finally block, so a
\* cancelled call stores what it has built so far.
_content_function_finally(c, outcome, coll) ==
    LET n == IF outcome.kind = "return" THEN outcome.response.items ELSE 0
        agg == AggregateSearchResult(c, Counts(0, 0, 0, 0, n), NoText)
    IN IF outcome.kind = "return" THEN Returns(agg, add_aggregate_result(coll, agg))
       ELSE IF outcome.kind = "cancel"
            THEN IsCancelled(add_aggregate_result(coll, agg))
            ELSE Propagates(outcome, coll)

\* _content_function from the await on (rag.py 250-275): one
\* ContextDocumentResult per item of raw_context.
_content_function(c, outcome, coll) ==
    IF outcome.kind = "return"
    THEN LET agg == AggregateSearchResult(
                        c, Counts(0, 0, 0, 0, outcome.response.items), NoText)
         IN Returns(agg, add_aggregate_result(coll, agg))
    ELSE Propagates(outcome, coll)

\* A plausible slip: a failed search is caught and answered with no results.
_web_search_function_swallow(c, outcome, coll) ==
    LET n == IF outcome.kind = "return" THEN outcome.response.items ELSE 0
        agg == AggregateSearchResult(c, Counts(0, 0, n, 0, 0), NoText)
    IN IF outcome.kind = "cancel" THEN IsCancelled(coll)
       ELSE Returns(agg, add_aggregate_result(coll, agg))

\* _web_search_function from get_raw on (rag.py 313-322).
_web_search_function(c, outcome, coll) ==
    IF outcome.kind = "return"
    THEN LET agg == AggregateSearchResult(
                        c, Counts(0, 0, outcome.response.items, 0, 0), NoText)
         IN Returns(agg, add_aggregate_result(coll, agg))
    ELSE Propagates(outcome, coll)

\* _search_files_function from the await on (rag.py 359-369).
_search_files_function(c, outcome, coll) ==
    IF outcome.kind = "return"
    THEN LET agg == AggregateSearchResult(
                        c, Counts(0, 0, 0, outcome.response.items, 0), NoText)
         IN Returns(agg, add_aggregate_result(coll, agg))
    ELSE Propagates(outcome, coll)

\* A plausible slip: the cap tested with >=, so a page of exactly ScrapeCap
\* characters is marked as cut.
CapMarkdown_ge(length) ==
    IF length >= ScrapeCap THEN Text(ScrapeCap, TRUE) ELSE Text(length, FALSE)

\* rag.py 468-471: the cap on the scraped markdown.
CapMarkdown(length) ==
    IF length > ScrapeCap THEN Text(ScrapeCap, TRUE) ELSE Text(length, FALSE)

\* A plausible slip: the guard tests whether the collector holds anything,
\* so the first result of a turn is not stored.
_firecrawl_scrape_function_iflen(c, outcome, coll) ==
    IF outcome.kind = "return"
    THEN LET agg == AggregateSearchResult(
                        c, Counts(0, 0, 1, 0, 0),
                        CapMarkdown(outcome.response.length))
         IN Returns(agg, IF Len(coll.entries) > 0
                         THEN add_aggregate_result(coll, agg) ELSE coll)
    ELSE Propagates(outcome, coll)

\* _firecrawl_scrape_function from scrape_url on (rag.py 437-490): one web
\* result holding the capped markdown, stored if the collector is truthy.
_firecrawl_scrape_function(c, outcome, coll) ==
    IF outcome.kind = "return"
    THEN LET agg == AggregateSearchResult(
                        c, Counts(0, 0, 1, 0, 0),
                        CapMarkdown(outcome.response.length))
         IN Returns(agg, IF CollectorTruthy(coll)
                         THEN add_aggregate_result(coll, agg) ELSE coll)
    ELSE Propagates(outcome, coll)

\* The results-function of each tool, from its collaborator's answer on.
ResultsFunction(t, c, outcome, coll) ==
    CASE t = "search_file_knowledge" -> _file_knowledge_search_function(c, outcome, coll)
      [] t = "content" -> _content_function(c, outcome, coll)
      [] t = "web_search" -> _web_search_function(c, outcome, coll)
      [] t = "search_file_descriptions" -> _search_files_function(c, outcome, coll)
      [] t = "firecrawl_scrape" -> _firecrawl_scrape_function(c, outcome, coll)

\* How a call reaches its collaborator: suspended in an await, or inside a
\* plain (synchronous) call made on the event loop's thread.
Awaits(f) == [pc |-> "awaiting", err |-> "none", filters |-> f]
Blocks == [pc |-> "blocking", err |-> "none", filters |-> None]
Fails(e) == [pc |-> "raised", err |-> e, filters |-> None]

\* A plausible slip: the check of the content tool copied from the knowledge
\* search and left testing knowledge_search_method.
Enter_copied(t, filters, bnd, baseline) ==
    CASE t = "search_file_knowledge" ->
            IF "knowledge_search_method" \notin bnd THEN Fails("ValueError")
            ELSE Awaits(None)
      [] t = "content" ->
            IF "knowledge_search_method" \notin bnd THEN Fails("ValueError")
            ELSE LET m == MergeFilters(filters, baseline)
                 IN IF m.status = "raised" THEN Fails(m.error)
                    ELSE Awaits(m.filters)
      [] t = "search_file_descriptions" ->
            IF "file_search_method" \notin bnd THEN Fails("ValueError")
            ELSE Awaits(None)
      [] t = "web_search" -> Blocks
      [] t = "firecrawl_scrape" -> Blocks

\* Each results-function up to its collaborator call: the check that the
\* method is bound (rag.py 135-138, 236-237, 353-356), the filter merge of
\* the content tool (239-245), then `await self.<method>(...)` (140, 250,
\* 359) or the un-awaited serper_client.get_raw(query) (313) and
\* app.scrape_url(...) (437).
Enter(t, filters, bnd, baseline) ==
    CASE t = "search_file_knowledge" ->
            IF "knowledge_search_method" \notin bnd THEN Fails("ValueError")
            ELSE Awaits(None)
      [] t = "content" ->
            IF "content_method" \notin bnd THEN Fails("ValueError")
            ELSE LET m == MergeFilters(filters, baseline)
                 IN IF m.status = "raised" THEN Fails(m.error)
                    ELSE Awaits(m.filters)
      [] t = "search_file_descriptions" ->
            IF "file_search_method" \notin bnd THEN Fails("ValueError")
            ELSE Awaits(None)
      [] t = "web_search" -> Blocks
      [] t = "firecrawl_scrape" -> Blocks

\* The `filters` argument a call may carry (only the content tool has one).
CallFilters(t) ==
    IF t = "content"
    THEN {None, Dict([k \in {"document_id"} |-> "X"]),
          JsonDumps(Dict([k \in {"document_id"} |-> "X"]))}
    ELSE {None}

\* The agent is constructed with its three methods (rag.py 60-72); a caller
\* may pass None for them.
BoundOptions == {Methods, {}}

\* The collaborator call of one invocation: where it stands, the filters it
\* was given and, once a scrape has answered, the length of its markdown.
IO(phase, filters) == [phase |-> phase, filters |-> filters, length |-> 0]

ToolsIdle ==
    /\ bound = Methods
    /\ pc = [c \in Calls |-> "idle"]
    /\ tool = [c \in Calls |-> "none"]
    /\ io = [c \in Calls |-> IO("none", None)]
    /\ err = [c \in Calls |-> "none"]
    /\ result = [c \in Calls |-> NoAggregate]
    /\ search_results_collector = SearchResultsCollector
    /\ completion_order = <<>>

ToolsInit ==
    /\ bound \in BoundOptions
    /\ pc = [c \in Calls |-> "idle"]
    /\ tool = [c \in Calls |-> "none"]
    /\ io = [c \in Calls |-> IO("none", None)]
    /\ err = [c \in Calls |-> "none"]
    /\ result = [c \in Calls |-> NoAggregate]
    /\ search_results_collector = SearchResultsCollector
    /\ completion_order = <<>>

\* One invocation (call 1) on an agent given any subset of its methods, made
\* either first in the turn or after a web_search (call 2) has returned one
\* result and stored it.
EarlierAggregate == AggregateSearchResult(2, Counts(0, 0, 1, 0, 0), NoText)
OneCallInit ==
    /\ bound \in SUBSET Methods
    /\ \E earlier \in BOOLEAN :
          /\ pc = [c \in Calls |-> IF earlier /\ c = 2 THEN "returned" ELSE "idle"]
          /\ tool = [c \in Calls |-> IF earlier /\ c = 2 THEN "web_search" ELSE "none"]
          /\ io = [c \in Calls |-> IF earlier /\ c = 2
                                   THEN IO("returned", None)
                                   ELSE IO("none", None)]
          /\ result = [c \in Calls |-> IF earlier /\ c = 2 THEN EarlierAggregate
                                       ELSE NoAggregate]
          /\ search_results_collector =
                IF earlier
                THEN add_aggregate_result(SearchResultsCollector, EarlierAggregate)
                ELSE SearchResultsCollector
          /\ completion_order = IF earlier THEN <<2>> ELSE <<>>
    /\ err = [c \in Calls |-> "none"]

\* The event loop runs one coroutine at a time, and a coroutine inside a
\* synchronous call keeps the loop until that call is over.
EventLoopFree == \A c \in Calls : pc[c] # "blocking"

\* The agent loop starts the results-function of a requested tool call; it
\* runs to its collaborator call.
Invoke(c) ==
    /\ pc[c] = "idle"
    /\ EventLoopFree
    /\ \E t \in SupportedNames :
         \E f \in CallFilters(t) :
            LET e == Enter(t, f, bound, baseline_filters)
            IN /\ pc' = [pc EXCEPT ![c] = e.pc]
               /\ tool' = [tool EXCEPT ![c] = t]
               /\ err' = [err EXCEPT ![c] = e.err]
               /\ io' = [io EXCEPT ![c] =
                            IF e.pc = "raised" THEN @
                            ELSE IO("outstanding", e.filters)]
    /\ UNCHANGED <<bound, result, search_results_collector, completion_order>>
    /\ UNCHANGED <<fmt_vars, content_vars, reg_vars>>

\* The rest of the results-function, one step of the event loop.
Finish(c, outcome) ==
    LET r == ResultsFunction(tool[c], c, outcome, search_results_collector)
    IN /\ pc' = [pc EXCEPT ![c] = r.pc]
       /\ err' = [err EXCEPT ![c] = r.err]
       /\ result' = [result EXCEPT ![c] = r.result]
       /\ search_results_collector' = r.collector
       /\ completion_order' = IF r.pc = "returned"
                              THEN Append(completion_order, c)
                              ELSE completion_order
       /\ io' = [io EXCEPT ![c].phase =
                    CASE outcome.kind = "return" -> "returned"
                      [] outcome.kind = "raise" -> "raised"
                      [] outcome.kind = "cancel" -> "cancelled",
                            ![c].length = outcome.response.length]
       /\ UNCHANGED <<bound, tool>>
       /\ UNCHANGED <<fmt_vars, content_vars, reg_vars>>

\* The collaborator answers (a result or an exception) and the call runs to
\* its end: an awaiting call is resumed by the event loop, a blocking one
\* simply goes on.
Complete(c) ==
    /\ pc[c] \in {"awaiting", "blocking"}
    /\ pc[c] = "awaiting" => EventLoopFree
    /\ \E outcome \in Outcomes(tool[c]) : Finish(c, outcome)

\* The turn is cancelled: CancelledError is thrown into the call at the
\* await it is suspended in.
Cancel(c) ==
    /\ pc[c] = "awaiting"
    /\ EventLoopFree
    /\ Finish(c, Cancelled)

(***************************************************************************)
(* Specifications                                                          *)
(***************************************************************************)
NextFormat == FormatCall
NextContent == ContentCall
NextRegister == RegisterBegin \/ RegisterNext
NextTools == \E c \in Calls : Invoke(c) \/ Complete(c) \/ Cancel(c)
NextOneCall == \E c \in {1} : Invoke(c) \/ Complete(c) \/ Cancel(c)

InitFormat == FormatInit /\ ContentIdle /\ RegisterIdle /\ ToolsIdle
InitContent == FormatIdle /\ ContentInit /\ RegisterIdle /\ ToolsIdle
InitRegister == FormatIdle /\ ContentIdle /\ RegisterInit /\ ToolsIdle
InitTools == FormatIdle /\ ContentIdle /\ RegisterIdle /\ ToolsInit
InitOneCall == FormatIdle /\ ContentIdle /\ RegisterIdle /\ OneCallInit

SpecFormat == InitFormat /\ [][NextFormat]_vars
SpecContent == InitContent /\ [][NextContent]_vars
SpecRegister == InitRegister /\ [][NextRegister]_vars
SpecTools == InitTools /\ [][NextTools]_vars
SpecOneCall == InitOneCall /\ [][NextOneCall]_vars

(***************************************************************************)
(* Properties                                                              *)
(***************************************************************************)
IsPrefix(p, s) == Len(p) <= Len(s) /\ p = SubSeq(s, 1, Len(p))
IsStrictPrefix(p, s) == Len(p) < Len(s) /\ p = SubSeq(s, 1, Len(p))

\* The rule as documented: tokens = token_count + 1, fraction = budget /
\* tokens; the text itself when fraction >= 1, else its first
\* floor(fraction * length) characters.
ReferenceRule(ctx, ntok, budget) ==
    LET tokens == ntok + 1
    IN IF budget >= tokens THEN ctx
       ELSE SubSeq(ctx, 1, (budget * Len(ctx)) \div tokens)

\* C1: for every rendered text, token count and budget, what
\* format_search_results_for_llm returns is what the documented rule gives
\* (unchanged when fraction >= 1, else the first floor(fraction * length)
\* characters), and it is a prefix of the text.
C1_FormatFollowsReferenceRule ==
    fmt_pc = "returned" =>
        /\ llm_text = ReferenceRule(context, raw_tokens, max_tool_context_length)
        /\ IsPrefix(llm_text, context)

\* The boundary the code and the rule word differently: fraction = 1.
C1_Witness ==
    /\ fmt_pc = "returned"
    /\ max_tool_context_length = raw_tokens + 1
    /\ Len(context) = MaxContextLen

\* C2 as stated: the text is returned unmodified whenever the raw token count
\* is <= the budget, and a strictly shorter prefix whenever it is greater.
C2_IdentityUpToBudget ==
    fmt_pc = "returned" =>
        /\ raw_tokens <= max_tool_context_length => llm_text = context
        /\ raw_tokens > max_tool_context_length => IsStrictPrefix(llm_text, context)

\* C2 amended: the text is returned unmodified whenever the raw token count
\* is below the budget; at a raw token count equal to or above the budget a
\* non-empty text is cut to a strictly shorter prefix.
C2_IdentityBelowBudget ==
    fmt_pc = "returned" =>
        /\ raw_tokens < max_tool_context_length => llm_text = context
        /\ (raw_tokens >= max_tool_context_length /\ Len(context) > 0)
              => IsStrictPrefix(llm_text, context)

\* A text of exactly `budget` tokens comes back cut.
C2_Witness ==
    /\ fmt_pc = "returned"
    /\ raw_tokens = max_tool_context_length
    /\ Len(context) > 0
    /\ IsStrictPrefix(llm_text, context)

\* C7: caller filters (a dict) with a document_id key and empty baseline
\* filters reach content_method as the same dict with document_id renamed to
\* id (same value, no document_id left) and no $and wrapper.
C7_DocumentIdRenamed ==
    (/\ content_call # NotCalled
     /\ arg_shape = "object"
     /\ arg_filters.kind = "dict"
     /\ "document_id" \in DOMAIN arg_filters.items
     /\ baseline_filters = EmptyDict)
    => /\ content_call.status = "called"
       /\ content_call.filters.kind = "dict"
       /\ LET given == arg_filters.items
              got == content_call.filters.items
          IN /\ DOMAIN got = (DOMAIN given \ {"document_id"}) \cup {"id"}
             /\ got["id"] = given["document_id"]
             /\ \A k \in DOMAIN given \ {"document_id", "id"} : got[k] = given[k]

\* {"document_id": "X"} became {"id": "X"}.
C7_Witness ==
    /\ content_call.status = "called"
    /\ arg_shape = "object"
    /\ arg_filters = Dict([k \in {"document_id"} |-> "X"])
    /\ baseline_filters = EmptyDict
    /\ content_call.filters = Dict([k \in {"id"} |-> "X"])

\* The caller's filters after the rename of document_id, if it is there.
RenamedCaller ==
    IF arg_filters.kind = "dict" /\ "document_id" \in DOMAIN arg_filters.items
    THEN RenameDocumentId(arg_filters) ELSE arg_filters

\* C8 as stated: for every caller value (absent, empty or not), non-empty
\* baseline filters give {"$and": [caller, baseline]} and empty baseline
\* filters give the caller's filters as they are.
C8_AlwaysAndWithBaseline ==
    (content_call # NotCalled /\ arg_shape = "object") =>
        /\ content_call.status = "called"
        /\ content_call.filters =
              IF baseline_filters # EmptyDict
              THEN And(RenamedCaller, baseline_filters)
              ELSE RenamedCaller

\* C8 amended: for non-empty caller filters, non-empty baseline filters give
\* {"$and": [caller, baseline]} and empty baseline filters give the (renamed)
\* caller filters; for absent or empty caller filters the baseline filters
\* alone are passed, without a $and wrapper.
C8_AndOnlyForNonEmptyCaller ==
    (content_call # NotCalled /\ arg_shape = "object") =>
        /\ content_call.status = "called"
        /\ content_call.filters =
              IF arg_filters = None \/ arg_filters = EmptyDict
              THEN baseline_filters
              ELSE IF baseline_filters # EmptyDict
                   THEN And(RenamedCaller, baseline_filters)
                   ELSE RenamedCaller

\* No caller filters, a non-empty baseline: the baseline goes out alone.
C8_Witness ==
    /\ content_call.status = "called"
    /\ arg_filters = None
    /\ baseline_filters # EmptyDict
    /\ content_call.filters = baseline_filters

\* C9: for every filter object F, the call given the JSON text of F hands
\* content_method the same merged filter, with the same outcome, as the call
\* given F itself.
C9_StringFiltersDecoded ==
    (content_call # NotCalled /\ arg_shape = "string") =>
        content_call = MergeFilters(arg_filters, baseline_filters)

HasUnsupported == \E i \in 1..Len(config_tools) : config_tools[i] \notin SupportedNames

\* C10: a tool list holding a name outside the five supported ones never
\* registers to the end: the name stays to be visited until the loop reaches
\* it, and registration then ends with the unsupported-tool error, whatever
\* else the list holds and wherever the name stands.
C10_UnknownNameFailsRegistration ==
    /\ reg_pc = "done" => ~HasUnsupported
    /\ reg_pc = "raised" => HasUnsupported
    /\ reg_pc = "loop" =>
          /\ remaining # {}
          /\ HasUnsupported => \E n \in remaining : n \notin SupportedNames

\* The unknown name stands last and two tools were registered before the
\* loop reached it.
C10_Witness ==
    /\ reg_pc = "raised"
    /\ Len(config_tools) = MaxConfigTools
    /\ config_tools[Len(config_tools)] \notin SupportedNames
    /\ Len(tools) = MaxConfigTools - 1

Entries == search_results_collector.entries
EntriesOf(c) == {i \in 1..Len(Entries) : Entries[i].agg.call = c}

\* C3: for each of the five tools, when the external collaborator of a call
\* raises, the call ends with that error raised to its caller (no aggregate
\* is returned) and the Collector is left exactly as it was.
C3_CollaboratorErrorPropagates ==
    [][\A c \in Calls :
          (io[c].phase = "outstanding" /\ io'[c].phase = "raised") =>
              /\ pc'[c] = "raised"
              /\ err'[c] = "CollaboratorError"
              /\ result'[c] = NoAggregate
              /\ search_results_collector' = search_results_collector]_vars

\* A web_search whose client raised, beside a call that had stored its
\* aggregate before.
C3_Witness ==
    \E c, d \in Calls :
        /\ tool[c] = "web_search" /\ io[c].phase = "raised" /\ pc[c] = "raised"
        /\ pc[d] = "returned" /\ EntriesOf(d) # {}

RECURSIVE TotalOf(_, _)
TotalOf(order, k) ==
    IF order = <<>> THEN 0
    ELSE result[order[1]].n[k] + TotalOf(Tail(order), k)

\* The Collector holds one entry per returned call, in the order the calls
\* returned, and the ids of each kind are 1..(number of results of that kind
\* in all stored aggregates), each given once.
CollectorInOrder ==
    /\ Len(Entries) = Cardinality({c \in Calls : pc[c] = "returned"})
    /\ Len(Entries) = Len(completion_order)
    /\ \A i \in 1..Len(Entries) :
          /\ Entries[i].index = i
          /\ Entries[i].agg.call = completion_order[i]
          /\ Entries[i].agg = result[completion_order[i]]
          /\ \A k \in Kinds : Cardinality(Entries[i].ids[k]) = Entries[i].agg.n[k]
    /\ \A i, j \in 1..Len(Entries) :
          i # j => /\ Entries[i].agg.call # Entries[j].agg.call
                   /\ \A k \in Kinds : Entries[i].ids[k] \cap Entries[j].ids[k] = {}
    /\ \A k \in Kinds :
          UNION {Entries[i].ids[k] : i \in 1..Len(Entries)}
             = 1..TotalOf(completion_order, k)

\* A step that changes the Collector is the return of exactly one call and
\* appends exactly that call's aggregate.
OneAddPerReturn ==
    search_results_collector' # search_results_collector =>
        \E c \in Calls :
            /\ pc[c] # "returned" /\ pc'[c] = "returned"
            /\ \A d \in Calls \ {c} : pc'[d] = pc[d]
            /\ Len(search_results_collector'.entries) = Len(Entries) + 1
            /\ SubSeq(search_results_collector'.entries, 1, Len(Entries)) = Entries
            /\ search_results_collector'.entries[Len(Entries) + 1].agg = result'[c]

\* C4: however the concurrent calls on one agent interleave, the Collector
\* holds exactly one aggregate per completed call, in completion order, none
\* lost or duplicated, with ids unique and gap-free per kind and as many as
\* there are results; building an aggregate and adding it is one step, never
\* interleaved with another call's add.
C4_OneEntryPerCompletedCall ==
    [][OneAddPerReturn /\ CollectorInOrder']_vars

\* Two calls started before either finished, both returned with results, the
\* one started second finishing first.
C4_Witness ==
    /\ NumCalls >= 2
    /\ pc[1] = "returned" /\ pc[2] = "returned"
    /\ completion_order = <<2, 1>>
    /\ tool[1] = "search_file_knowledge" /\ tool[2] = "content"
    /\ result[1].n["chunk"] = MaxResults
    /\ result[2].n["context_document"] = MaxResults

\* C5: a call cancelled before it returns adds nothing: at every moment each
\* call has put into the Collector either nothing (not finished, failed or
\* cancelled) or its one whole aggregate (returned).
C5_AllOrNothingPerCall ==
    \A c \in Calls :
        /\ Cardinality(EntriesOf(c)) = IF pc[c] = "returned" THEN 1 ELSE 0
        /\ \A i \in EntriesOf(c) :
              /\ Entries[i].agg = result[c]
              /\ \A k \in Kinds : Cardinality(Entries[i].ids[k]) = result[c].n[k]
        /\ io[c].phase = "cancelled" =>
              pc[c] = "cancelled" /\ err[c] = "CancelledError"

\* A content call cancelled in its await, beside a call that returned.
C5_Witness ==
    \E c, d \in Calls :
        /\ tool[c] = "content" /\ pc[c] = "cancelled" /\ EntriesOf(c) = {}
        /\ pc[d] = "returned" /\ Len(Entries) = 1

\* C6: while one tool call waits for its external collaborator, every other
\* requested call can take its next step: one not yet started can start, one
\* suspended in its await can be resumed.
C6_NoToolCallBlocksAnother ==
    \A c, d \in Calls :
        (c # d /\ io[c].phase = "outstanding") =>
            /\ pc[d] = "idle" => ENABLED Invoke(d)
            /\ pc[d] = "awaiting" => ENABLED Complete(d)

\* The method each method-backed tool calls.
NeededMethod(t) ==
    CASE t = "search_file_knowledge" -> "knowledge_search_method"
      [] t = "content" -> "content_method"
      [] t = "search_file_descriptions" -> "file_search_method"
      [] OTHER -> "none"

\* C11: when the method a tool needs is unbound (knowledge_search_method for
\* search_file_knowledge, content_method for content, file_search_method for
\* search_file_descriptions), invoking the tool fails at once with the
\* configuration error: no collaborator is called and the Collector is left
\* as it was.
C11_UnboundMethodFailsAtOnce ==
    [][\A c \in Calls :
          (/\ pc[c] = "idle" /\ pc'[c] # "idle"
           /\ NeededMethod(tool'[c]) \in Methods \ bound)
          => /\ pc'[c] = "raised"
             /\ err'[c] = "ValueError"
             /\ io'[c].phase = "none"
             /\ result'[c] = NoAggregate
             /\ search_results_collector' = search_results_collector]_vars

\* The content tool invoked without content_method, the other two methods
\* bound, on a Collector that already holds an entry.
C11_Witness ==
    /\ tool[1] = "content"
    /\ bound = Methods \ {"content_method"}
    /\ pc[1] = "raised" /\ err[1] = "ValueError" /\ io[1].phase = "none"
    /\ Len(Entries) = 1

\* C12: for scraped markdown of n characters, the content firecrawl_scrape
\* puts into the Collector is the text unchanged when n <= 100,000 and its
\* first 100,000 characters followed by the truncation suffix when
\* n > 100,000; the cap is applied before the result reaches the Collector.
C12_ScrapeCappedBeforeCollector ==
    \A c \in Calls :
        (tool[c] = "firecrawl_scrape" /\ pc[c] = "returned") =>
            /\ EntriesOf(c) # {}
            /\ \A i \in EntriesOf(c) :
                  /\ Entries[i].agg.n["web"] = 1
                  /\ Entries[i].agg.snippet =
                        IF io[c].length <= 100000
                        THEN [kept |-> io[c].length, suffix |-> FALSE]
                        ELSE [kept |-> 100000, suffix |-> TRUE]

\* 150,000 characters scraped, 100,000 and the suffix stored.
C12_Witness ==
    /\ tool[1] = "firecrawl_scrape" /\ pc[1] = "returned"
    /\ io[1].length = 150000
    /\ \E i \in EntriesOf(1) :
          Entries[i].agg.snippet = [kept |-> 100000, suffix |-> TRUE]

\* C13: every invocation that returns normally, of any of the five tools and
\* whatever the Collector holds (nothing included), has added exactly one
\* entry, the very aggregate it returns; so the Collector holds as many
\* aggregates as there were successful invocations.
C13_ReturnAddsReturnedAggregate ==
    [][\A c \in Calls :
          (pc[c] # "returned" /\ pc'[c] = "returned") =>
              LET after == search_results_collector'.entries
              IN /\ Len(after) = Len(Entries) + 1
                 /\ SubSeq(after, 1, Len(Entries)) = Entries
                 /\ after[Len(after)].agg = result'[c]
                 /\ result'[c].call = c
                 /\ Len(after) = Cardinality({d \in Calls : pc'[d] = "returned"})]_vars

\* A scrape that returned first in the turn: its aggregate is the only entry.
C13_Witness ==
    \E c \in Calls :
        /\ tool[c] = "firecrawl_scrape" /\ pc[c] = "returned"
        /\ completion_order = <<c>>
        /\ Len(Entries) = 1 /\ Entries[1].agg = result[c]

\* C14: for every list of supported names in config.tools, with or without
\* duplicates, registration yields one Tool per distinct requested name, the
\* Tools have pairwise distinct names, and each Tool's published name is the
\* name it was registered under.
C14_PublishedNameIsRegisteredName ==
    (reg_pc = "done" /\ ~HasUnsupported) =>
        /\ Len(tools) = Cardinality(Range(config_tools))
        /\ \A i, j \in 1..Len(tools) : i # j => tools[i].name # tools[j].name
        /\ {tools[i].name : i \in 1..Len(tools)} = Range(config_tools)

====
